---- MODULE Spec2Model ----
(***************************************************************************)
(* GoogleRealtimeMap (src/src/realtime/realtimemap.ts): an observable map  *)
(* that mirrors a gapi CollaborativeMap.  The adapter keeps a local cache  *)
(* (_map, an ObservableMap backed by an insertion-ordered JS Map) and a    *)
(* reference (_gmap) to the remote collaborative map.                      *)
(*                                                                         *)
(* JavaScript is single-threaded: every method and every listener call     *)
(* runs to completion, so each is one action.  The collaborative map       *)
(* dispatches VALUE_CHANGED synchronously when a change is applied to it,  *)
(* so a collaborator's change and the listener call it causes are one      *)
(* step.                                                                   *)
(***************************************************************************)
EXTENDS Naturals, Sequences, FiniteSets

VARIABLES
  _map,         \* the local cache: sequence of [key, value], insertion order
  remote,       \* entries of the external CollaborativeMap, same shape
  _gmap,        \* the adapter's reference to the remote map: Null or "gmap"
  listeners,    \* number of VALUE_CHANGED listeners registered on the remote map
  _isDisposed,  \* the _isDisposed field
  _converters,  \* the keys that have an IRealtimeConverter
  connected,    \* whether the subscribers of `changed` are still connected
  emitted,      \* the events the last step passed to changed.emit, in order
  atEmit,       \* for each event of `emitted`: what the cache and the remote map
                \* held for its key when changed.emit was called
  written,      \* history: the keys a set or linkSet call that returned has written
  touched,      \* history: the keys in the remote map at attach, passed to set or
                \* linkSet, or subject of an event delivered to the listener
  listed,       \* the array the last step returned, if it was keys() or values()
  last          \* the last step: operation, arguments, result, whether it threw

vars == <<_map, remote, _gmap, listeners, _isDisposed, _converters,
          connected, emitted, atEmit, written, touched, listed, last>>

----------------------------------------------------------------------------
(* Bounds and value universe *)

\* The keys and values below are finite sets.  The only counter is the
\* number of listeners, which every assignment of googleObject raises.
Keys == {"a", "b"}

\* the number of listeners up to which googleObject is assigned
MaxListeners == 2

\* the converters given at construction: key "b" has one, key "a" has none
ConverterChoices == {{"b"}}

Undefined == "undefined"   \* JS undefined / null: an absent value
Null == "null"             \* the null reference held by _gmap

\* values a collaborator can store in the remote map: two primitives, one of
\* them falsy, and the three collaborative types with a .type tag
RemoteVals == {"0", "s", "gList", "gString", "gMap"}

\* values of type T the host passes to set(): a falsy primitive and a
\* domain object
LocalVals == {"0", "obj"}

\* shadow values (Synchronizable) the host passes to linkSet()
ShadowVals == {"s", "Vec"}

\* JS truthiness of a value
Truthy(v) == v \notin {Undefined, "0"}

\* the .type field of a remote value (undefined on primitives)
TypeOf(item) ==
  CASE item = "gList" -> "List"
    [] item = "gString" -> "EditableString"
    [] item = "gMap" -> "Map"
    [] OTHER -> Undefined

----------------------------------------------------------------------------
(* The insertion-ordered map used for the cache and for the remote map *)

MapKeys(m) == {m[i].key : i \in 1..Len(m)}

MapKeyList(m) == [i \in 1..Len(m) |-> m[i].key]

MapHas(m, k) == \E i \in 1..Len(m) : m[i].key = k

MapGet(m, k) ==
  IF MapHas(m, k) THEN (CHOOSE e \in {m[i] : i \in 1..Len(m)} : e.key = k).value
  ELSE Undefined

MapSet(m, k, v) ==
  IF MapHas(m, k)
  THEN [i \in 1..Len(m) |-> IF m[i].key = k THEN [key |-> k, value |-> v] ELSE m[i]]
  ELSE Append(m, [key |-> k, value |-> v])

MapDelete(m, k) == SelectSeq(m, LAMBDA e : e.key # k)

MapSize(m) == Len(m)

----------------------------------------------------------------------------
(* Conversions *)

\* IRealtimeConverter.from: Synchronizable -> T
ConverterFrom(s) ==
  CASE s = "Vec" -> "obj"
    [] s = "to(0)" -> "0"
    [] s = "to(s)" -> "s"
    [] OTHER -> s

\* IRealtimeConverter.to: T -> Synchronizable
ConverterTo(v) ==
  CASE v = "obj" -> "Vec"
    [] v = "0" -> "to(0)"
    [] v = "s" -> "to(s)"
    [] OTHER -> v

\* utils.toGoogleSynchronizable: a wrapper yields its googleObject
toGoogleSynchronizable(item) ==
  CASE item = "Vec" -> "gList"
    [] item = "Str" -> "gString"
    [] item = "Map" -> "gMap"
    [] OTHER -> item

\* _createNewEntry: the cache entry for a remote value
CreateNewEntry(key, item) ==
  IF ~Truthy(item) THEN item
  ELSE IF TypeOf(item) = "List"
       THEN IF key \in _converters THEN ConverterFrom("Vec") ELSE "Vec"
  ELSE IF TypeOf(item) = "EditableString" THEN "Str"
  ELSE IF TypeOf(item) = "Map" THEN "Map"
  ELSE item

\* _createNewGoogleEntry: the remote value for a value given to set()
CreateNewGoogleEntry(key, item) ==
  IF key \in _converters THEN toGoogleSynchronizable(ConverterTo(item))
  ELSE item

----------------------------------------------------------------------------
(* Events *)

Event(t, k, old, new) == [type |-> t, key |-> k, oldValue |-> old, newValue |-> new]

\* what a subscriber reads for key k when it receives an event: the cache m
\* and the remote map r as they are at the changed.emit call
Snapshot(m, r, k) == [cache |-> MapGet(m, k), remote |-> MapGet(r, k)]

Step(op, k, v, ret, threw) ==
  [op |-> op, key |-> k, value |-> v, ret |-> ret, threw |-> threw]

None == "-"   \* an argument or result the operation does not have

----------------------------------------------------------------------------
(* Read operations *)

\* variant of get: the value is read from the remote map
getFromRemote(key) == MapGet(remote, key)

get(key) == MapGet(_map, key)

has(key) == MapHas(_map, key)

keys == MapKeyList(_map)

values == [i \in 1..Len(_map) |-> _map[i].value]

TypeError == "TypeError"   \* the outcome of a call on the null _gmap

\* size reads the remote map, not the cache; on a null _gmap it throws
size == IF _gmap = Null THEN TypeError ELSE MapSize(remote)

isDisposed == _isDisposed

----------------------------------------------------------------------------
Init ==
  /\ _map = <<>>
  /\ remote = <<>>
  /\ _gmap = Null
  /\ listeners = 0
  /\ _isDisposed = FALSE
  /\ _converters \in ConverterChoices
  /\ connected = TRUE
  /\ emitted = <<>>
  /\ atEmit = <<>>
  /\ written = {}
  /\ touched = {}
  /\ listed = <<>>
  /\ last = Step("new", None, None, None, FALSE)

----------------------------------------------------------------------------
(* The VALUE_CHANGED listener registered by the googleObject setter *)

RemoteEvent(k, old, new, isLocal) ==
  [property |-> k, oldValue |-> old, newValue |-> new, isLocal |-> isLocal]

\* the classification computed by the listener
ListenerChangeType(evt) ==
  IF Truthy(evt.oldValue) /\ Truthy(evt.newValue) THEN "change"
  ELSE IF Truthy(evt.oldValue) /\ ~Truthy(evt.newValue) THEN "remove"
  ELSE "add"

\* variant of ListenerMap: the remote value is cached without re-wrapping
ListenerMapRaw(m, evt) ==
  IF ~evt.isLocal THEN MapSet(m, evt.property, evt.newValue) ELSE m

\* the cache after the listener has handled evt
ListenerMap(m, evt) ==
  IF ~evt.isLocal
  THEN MapSet(m, evt.property, CreateNewEntry(evt.property, evt.newValue))
  ELSE m

\* variant of ListenerEmits: isLocal is not tested
ListenerEmitsAlways(evt) ==
  <<Event(ListenerChangeType(evt), evt.property, evt.oldValue, evt.newValue)>>

\* the events the listener passes to changed.emit for evt
ListenerEmits(evt) ==
  IF ~evt.isLocal
  THEN <<Event(ListenerChangeType(evt), evt.property, evt.oldValue, evt.newValue)>>
  ELSE <<>>

\* what the cache and the remote map r hold when the listener emits for evt
ListenerAtEmit(m, r, evt) ==
  IF ~evt.isLocal THEN <<Snapshot(ListenerMap(m, evt), r, evt.property)>> ELSE <<>>

\* The remote map calls its n registered listeners with evt one after the
\* other; each is the closure of lines 108-127 on the same adapter.
\* the cache after n listeners have run
RECURSIVE DispatchMapN(_, _, _)
DispatchMapN(n, m, evt) ==
  IF n = 0 THEN m ELSE DispatchMapN(n - 1, ListenerMap(m, evt), evt)

\* the events n listeners emit
RECURSIVE DispatchEmitsN(_, _)
DispatchEmitsN(n, evt) ==
  IF n = 0 THEN <<>> ELSE ListenerEmits(evt) \o DispatchEmitsN(n - 1, evt)

\* what is readable at each emission of n listeners, the remote map holding r
RECURSIVE DispatchAtEmitN(_, _, _, _)
DispatchAtEmitN(n, m, r, evt) ==
  IF n = 0 THEN <<>>
  ELSE ListenerAtEmit(m, r, evt) \o
       DispatchAtEmitN(n - 1, ListenerMap(m, evt), r, evt)

\* the remote map dispatching evt to every registered listener
DispatchMap(m, evt) == DispatchMapN(listeners, m, evt)

DispatchEmits(evt) == DispatchEmitsN(listeners, evt)

DispatchAtEmit(m, r, evt) == DispatchAtEmitN(listeners, m, r, evt)

----------------------------------------------------------------------------
(* The googleObject setter: bind, populate, register the listener *)

\* variant of Populate: entries with a falsy value are skipped
RECURSIVE PopulateSkipsFalsy(_, _, _)
PopulateSkipsFalsy(m, r, i) ==
  IF i > Len(r) THEN m
  ELSE PopulateSkipsFalsy(
         IF Truthy(r[i].value)
         THEN MapSet(m, r[i].key, CreateNewEntry(r[i].key, r[i].value))
         ELSE m, r, i + 1)

RECURSIVE Populate(_, _, _)
Populate(m, r, i) ==
  IF i > Len(r) THEN m
  ELSE Populate(MapSet(m, r[i].key, CreateNewEntry(r[i].key, r[i].value)), r, i + 1)

\* The setter runs in every state: on an attached adapter it populates
\* again and registers one more listener, on a disposed one it does the
\* same and leaves _isDisposed set.  MaxListeners caps the listener count.
Attach ==
  /\ listeners < MaxListeners
  /\ _gmap' = "gmap"
  /\ _map' = Populate(_map, remote, 1)
  /\ listeners' = listeners + 1
  /\ emitted' = <<>>
  /\ atEmit' = <<>>
  /\ last' = Step("attach", None, None, None, FALSE)
  /\ UNCHANGED <<remote, _isDisposed, _converters, connected, written>>

----------------------------------------------------------------------------
(* set *)

\* variant of SetOldVal: the previous value is not kept
SetOldValLost(key) == Undefined

\* the value set() reads before writing and returns at the end
SetOldVal(key) == MapGet(_map, key)

\* variant of SetAtEmit: changed.emit is called before the cache is written
SetAtEmitEarly(key, value) ==
  Snapshot(_map, MapSet(remote, key, CreateNewGoogleEntry(key, value)), key)

\* the cache and the remote map at the changed.emit call of set(): both
\* writes have been made
SetAtEmit(key, value) ==
  Snapshot(MapSet(_map, key, value),
           MapSet(remote, key, CreateNewGoogleEntry(key, value)), key)

SetChangeType(oldVal) == IF Truthy(oldVal) THEN "change" ELSE "add"

Set(key, value) ==
  LET oldVal == SetOldVal(key)
      echo == RemoteEvent(key, MapGet(remote, key),
                          CreateNewGoogleEntry(key, value), TRUE)
  IN IF _gmap = Null
     THEN \* this._gmap.set on null: TypeError before anything is written
          /\ emitted' = <<>>
          /\ atEmit' = <<>>
          /\ last' = Step("set", key, value, None, TRUE)
          /\ UNCHANGED <<_map, remote, _gmap, listeners, _isDisposed,
                         _converters, connected, written>>
     ELSE /\ remote' = MapSet(remote, key, CreateNewGoogleEntry(key, value))
          /\ _map' = MapSet(DispatchMap(_map, echo), key, value)
          /\ emitted' = DispatchEmits(echo) \o
                          <<Event(SetChangeType(oldVal), key, oldVal, value)>>
          /\ atEmit' = DispatchAtEmit(_map, remote', echo) \o <<SetAtEmit(key, value)>>
          /\ written' = written \cup {key}
          /\ last' = Step("set", key, value, oldVal, FALSE)
          /\ UNCHANGED <<_gmap, listeners, _isDisposed, _converters, connected>>

----------------------------------------------------------------------------
(* delete, and clear which calls it for every key *)

\* variant of DeleteOn: the remote entry is not deleted
DeleteOnKeepsRemote(st, key) ==
  LET oldVal == MapGet(st.m, key)
      m1 == MapDelete(st.m, key)
  IN IF _gmap = Null
     THEN [m |-> m1, r |-> st.r, ev |-> st.ev, at |-> st.at, threw |-> TRUE,
           ret |-> None]
     ELSE [m |-> m1, r |-> st.r,
           ev |-> st.ev \o <<Event("remove", key, oldVal, Undefined)>>,
           at |-> st.at \o <<Snapshot(m1, st.r, key)>>,
           threw |-> FALSE, ret |-> oldVal]

\* variant of DeleteOn: the cache entry is overwritten with undefined
\* instead of being deleted
DeleteOnSetsUndefined(st, key) ==
  LET oldVal == MapGet(st.m, key)
      m1 == MapSet(st.m, key, Undefined)
  IN IF _gmap = Null
     THEN [m |-> m1, r |-> st.r, ev |-> st.ev, at |-> st.at, threw |-> TRUE,
           ret |-> None]
     ELSE [m |-> m1, r |-> MapDelete(st.r, key),
           ev |-> st.ev \o <<Event("remove", key, oldVal, Undefined)>>,
           at |-> st.at \o <<Snapshot(m1, MapDelete(st.r, key), key)>>,
           threw |-> FALSE, ret |-> oldVal]

\* delete(key) run on an intermediate state st = [m, r, ev, at, threw, ret]:
\* cache, remote entries, events emitted so far with what was readable at
\* each emission, whether an error was raised, the value returned
DeleteOn(st, key) ==
  LET oldVal == MapGet(st.m, key)
      m1 == MapDelete(st.m, key)
      echo == RemoteEvent(key, MapGet(st.r, key), Undefined, TRUE)
      fired == MapHas(st.r, key)
  IN IF _gmap = Null
     THEN \* the cache entry is already gone when this._gmap.delete throws
          [m |-> m1, r |-> st.r, ev |-> st.ev, at |-> st.at, threw |-> TRUE,
           ret |-> None]
     ELSE [m |-> IF fired THEN DispatchMap(m1, echo) ELSE m1,
           r |-> MapDelete(st.r, key),
           ev |-> st.ev \o (IF fired THEN DispatchEmits(echo) ELSE <<>>) \o
                    <<Event("remove", key, oldVal, Undefined)>>,
           at |-> st.at \o
                    (IF fired THEN DispatchAtEmit(m1, MapDelete(st.r, key), echo)
                     ELSE <<>>) \o
                    <<Snapshot(IF fired THEN DispatchMap(m1, echo) ELSE m1,
                               MapDelete(st.r, key), key)>>,
           threw |-> FALSE,
           ret |-> oldVal]

Delete(key) ==
  LET res == DeleteOn([m |-> _map, r |-> remote, ev |-> <<>>, at |-> <<>>,
                       threw |-> FALSE, ret |-> None], key)
  IN /\ _map' = res.m
     /\ remote' = res.r
     /\ emitted' = res.ev
     /\ atEmit' = res.at
     /\ last' = Step("delete", key, None, res.ret, res.threw)
     /\ UNCHANGED <<_gmap, listeners, _isDisposed, _converters, connected, written>>

\* variant of ClearLoop: the index runs over the shrinking live key list, so
\* every other key is skipped
RECURSIVE ClearLoopLive(_, _, _)
ClearLoopLive(st, keyList, i) ==
  IF i > Len(keyList) THEN st
  ELSE LET d == DeleteOn(st, keyList[i])
       IN IF d.threw THEN d
          ELSE ClearLoopLive([d EXCEPT !.r = MapDelete(d.r, keyList[i])],
                             keyList, i + 2)

\* the loop of clear() from index i of keyList; an error ends it
RECURSIVE ClearLoop(_, _, _)
ClearLoop(st, keyList, i) ==
  IF i > Len(keyList) THEN st
  ELSE LET d == DeleteOn(st, keyList[i])
       IN IF d.threw THEN d
          ELSE ClearLoop([d EXCEPT !.r = MapDelete(d.r, keyList[i])], keyList, i + 1)

Clear ==
  LET res == ClearLoop([m |-> _map, r |-> remote, ev |-> <<>>, at |-> <<>>,
                        threw |-> FALSE, ret |-> None], MapKeyList(_map), 1)
  IN /\ _map' = res.m
     /\ remote' = res.r
     /\ emitted' = res.ev
     /\ atEmit' = res.at
     /\ last' = Step("clear", None, None, None, res.threw)
     /\ UNCHANGED <<_gmap, listeners, _isDisposed, _converters, connected, written>>

----------------------------------------------------------------------------
(* linkSet *)

LinkSet(key, val, shadowVal) ==
  LET echo == RemoteEvent(key, MapGet(remote, key),
                          toGoogleSynchronizable(shadowVal), TRUE)
      m1 == MapSet(_map, key, val)
  IN IF _gmap = Null
     THEN \* the cache is already written when this._gmap.set throws
          /\ _map' = m1
          /\ emitted' = <<>>
          /\ atEmit' = <<>>
          /\ last' = Step("linkSet", key, val, None, TRUE)
          /\ UNCHANGED <<remote, _gmap, listeners, _isDisposed, _converters,
                         connected, written>>
     ELSE /\ _map' = DispatchMap(m1, echo)
          /\ remote' = MapSet(remote, key, toGoogleSynchronizable(shadowVal))
          /\ emitted' = DispatchEmits(echo)
          /\ atEmit' = DispatchAtEmit(m1, remote', echo)
          /\ written' = written \cup {key}
          /\ last' = Step("linkSet", key, val, None, FALSE)
          /\ UNCHANGED <<_gmap, listeners, _isDisposed, _converters, connected>>

----------------------------------------------------------------------------
(* dispose *)

\* recorded with a dispose step: whether the call found the map disposed
DisposeCall == IF _isDisposed THEN "again" ELSE "first"

\* variant of Dispose: without the early return on _isDisposed
DisposeUnguarded ==
  IF _gmap = Null
  THEN /\ connected' = FALSE
       /\ emitted' = <<>>
       /\ atEmit' = <<>>
       /\ last' = Step("dispose", None, DisposeCall, None, TRUE)
       /\ UNCHANGED <<_map, remote, _gmap, listeners, _isDisposed, _converters,
                      written>>
  ELSE /\ connected' = FALSE
       /\ listeners' = 0
       /\ _map' = <<>>
       /\ _gmap' = Null
       /\ _isDisposed' = TRUE
       /\ emitted' = <<>>
       /\ atEmit' = <<>>
       /\ last' = Step("dispose", None, DisposeCall, None, FALSE)
       /\ UNCHANGED <<remote, _converters, written>>

\* variant of Dispose: the cache is emptied with this.clear(), which
\* deletes remotely and emits
DisposeViaClear ==
  LET res == ClearLoop([m |-> _map, r |-> remote, ev |-> <<>>, at |-> <<>>,
                        threw |-> FALSE, ret |-> None], MapKeyList(_map), 1)
  IN IF _isDisposed \/ _gmap = Null
     THEN /\ emitted' = <<>>
          /\ atEmit' = <<>>
          /\ last' = Step("dispose", None, DisposeCall, None, ~_isDisposed)
          /\ UNCHANGED <<_map, remote, _gmap, listeners, _isDisposed,
                         _converters, connected, written>>
     ELSE /\ connected' = FALSE
          /\ listeners' = 0
          /\ _map' = <<>>
          /\ remote' = res.r
          /\ _gmap' = Null
          /\ _isDisposed' = TRUE
          /\ emitted' = res.ev
          /\ atEmit' = res.at
          /\ last' = Step("dispose", None, DisposeCall, None, FALSE)
          /\ UNCHANGED <<_converters, written>>

Dispose ==
  IF _isDisposed
  THEN /\ emitted' = <<>>
       /\ atEmit' = <<>>
       /\ last' = Step("dispose", None, DisposeCall, None, FALSE)
       /\ UNCHANGED <<_map, remote, _gmap, listeners, _isDisposed, _converters,
                      connected, written>>
  ELSE IF _gmap = Null
  THEN \* clearSignalData has run when _gmap.removeAllEventListeners throws
       /\ connected' = FALSE
       /\ emitted' = <<>>
       /\ atEmit' = <<>>
       /\ last' = Step("dispose", None, DisposeCall, None, TRUE)
       /\ UNCHANGED <<_map, remote, _gmap, listeners, _isDisposed, _converters,
                      written>>
  ELSE /\ connected' = FALSE
       /\ listeners' = 0
       /\ _map' = <<>>
       /\ _gmap' = Null
       /\ _isDisposed' = TRUE
       /\ emitted' = <<>>
       /\ atEmit' = <<>>
       /\ last' = Step("dispose", None, DisposeCall, None, FALSE)
       /\ UNCHANGED <<remote, _converters, written>>

----------------------------------------------------------------------------
(* Changes made to the remote map by other collaborators (non-local) *)

RemoteSet(key, value) ==
  LET evt == RemoteEvent(key, MapGet(remote, key), value, FALSE)
  IN /\ MapGet(remote, key) # value
     /\ remote' = MapSet(remote, key, value)
     /\ _map' = DispatchMap(_map, evt)
     /\ emitted' = DispatchEmits(evt)
     /\ atEmit' = DispatchAtEmit(_map, remote', evt)
     /\ last' = Step("remoteSet", key, value, None, FALSE)
     /\ UNCHANGED <<_gmap, listeners, _isDisposed, _converters, connected, written>>

RemoteDelete(key) ==
  LET evt == RemoteEvent(key, MapGet(remote, key), Undefined, FALSE)
  IN /\ MapHas(remote, key)
     /\ remote' = MapDelete(remote, key)
     /\ _map' = DispatchMap(_map, evt)
     /\ emitted' = DispatchEmits(evt)
     /\ atEmit' = DispatchAtEmit(_map, remote', evt)
     /\ last' = Step("remoteDelete", key, Undefined, None, FALSE)
     /\ UNCHANGED <<_gmap, listeners, _isDisposed, _converters, connected, written>>

----------------------------------------------------------------------------
(* set and delete when the remote call itself raises an error (the remote *)
(* service fails): the error propagates from line 143 or line 206         *)

SetFails(key, value) ==
  /\ _gmap # Null
  /\ emitted' = <<>>
  /\ atEmit' = <<>>
  /\ last' = Step("set", key, value, None, TRUE)
  /\ UNCHANGED <<_map, remote, _gmap, listeners, _isDisposed, _converters,
                 connected, written>>

DeleteFails(key) ==
  /\ _gmap # Null
  /\ _map' = MapDelete(_map, key)
  /\ emitted' = <<>>
  /\ atEmit' = <<>>
  /\ last' = Step("delete", key, None, None, TRUE)
  /\ UNCHANGED <<remote, _gmap, listeners, _isDisposed, _converters, connected,
                 written>>

----------------------------------------------------------------------------
(* The read methods, as calls *)

BoolStr(b) == IF b THEN "true" ELSE "false"

ReadFrame ==
  /\ emitted' = <<>>
  /\ atEmit' = <<>>
  /\ UNCHANGED <<_map, remote, _gmap, listeners, _isDisposed, _converters,
                 connected, written, touched>>

Get(key) ==
  /\ last' = Step("get", key, None, get(key), FALSE)
  /\ listed' = <<>>
  /\ ReadFrame

Has(key) ==
  /\ last' = Step("has", key, None, BoolStr(has(key)), FALSE)
  /\ listed' = <<>>
  /\ ReadFrame

KeysCall ==
  /\ last' = Step("keys", None, None, None, FALSE)
  /\ listed' = keys
  /\ ReadFrame

ValuesCall ==
  /\ last' = Step("values", None, None, None, FALSE)
  /\ listed' = values
  /\ ReadFrame

----------------------------------------------------------------------------
(* History kept with every call that is not a read *)

\* the keys the step recorded in last' touches
TouchedBy ==
  IF last'.op \in {"set", "linkSet"} THEN {last'.key}
  ELSE IF last'.op = "attach" THEN MapKeys(remote)
  ELSE IF last'.op \in {"remoteSet", "remoteDelete"} /\ listeners > 0
       THEN {last'.key}
  ELSE {}

History ==
  /\ touched' = touched \cup TouchedBy
  /\ listed' = <<>>

----------------------------------------------------------------------------
Next ==
  \/ Attach /\ History
  \/ \E k \in Keys, v \in LocalVals : Set(k, v) /\ History
  \/ \E k \in Keys, v \in LocalVals : SetFails(k, v) /\ History
  \/ \E k \in Keys : Delete(k) /\ History
  \/ \E k \in Keys : DeleteFails(k) /\ History
  \/ Clear /\ History
  \/ \E k \in Keys, v \in LocalVals, s \in ShadowVals : LinkSet(k, v, s) /\ History
  \/ Dispose /\ History
  \/ \E k \in Keys, v \in RemoteVals : RemoteSet(k, v) /\ History
  \/ \E k \in Keys : RemoteDelete(k) /\ History
  \/ \E k \in Keys : Get(k)
  \/ \E k \in Keys : Has(k)
  \/ KeysCall
  \/ ValuesCall

Spec == Init /\ [][Next]_vars

----------------------------------------------------------------------------
(* Properties *)

Returned(op) == last.op = op /\ ~last.threw

\* the number of events of the sequence ev that are about key k
EventsFor(ev, k) == Cardinality({i \in 1..Len(ev) : ev[i].key = k})

\* a remote value is present when it is not undefined/null
Present(v) == v # Undefined

\* the remote form of a cached value: converted when the key has a converter
ConvertedForm(k, v) ==
  IF k \in _converters THEN toGoogleSynchronizable(ConverterTo(v)) ELSE v

\* the cache entry expected for a remote value: composite types wrapped
\* (through the key's converter when a list has one), anything else as it is
WrappedForm(k, v) ==
  CASE v = "gList" -> (IF k \in _converters THEN "obj" ELSE "Vec")
    [] v = "gString" -> "Str"
    [] v = "gMap" -> "Map"
    [] OTHER -> v

\* C1: after set, delete, clear or linkSet has returned, every key written
\* through the adapter is in the cache exactly when it is in the remote map,
\* and when present the remote value is the cached value (in converted form
\* when the key has a converter).
C1_CacheRemoteAgree ==
  (Returned("set") \/ Returned("delete") \/ Returned("clear") \/ Returned("linkSet"))
    => \A k \in written :
         /\ MapHas(_map, k) <=> MapHas(remote, k)
         /\ MapHas(_map, k) => MapGet(remote, k) = ConvertedForm(k, MapGet(_map, k))

\* C2: after the listener has handled a non-local event that removes key k
\* (newValue absent), has(k) is false and keys() does not contain k.
C2_RemoteRemoveDropsKey ==
  [][(last'.op = "remoteDelete" /\ listeners > 0)
       => /\ ~MapHas(_map', last'.key)
          /\ \A i \in 1..Len(MapKeyList(_map')) : MapKeyList(_map')[i] # last'.key]_vars

\* C3: after set(k, v) returns, get(k) = v and has(k) is true, and set
\* returned the value get(k) had before the call (absent when k was not
\* in the cache).
C3_SetThenGet ==
  [][(last'.op = "set" /\ ~last'.threw)
       => /\ MapGet(_map', last'.key) = last'.value
          /\ MapHas(_map', last'.key)
          /\ last'.ret = MapGet(_map, last'.key)]_vars

\* a set that returned the previous value of a key it overwrote
C3_Witness ==
  /\ Returned("set")
  /\ last.ret # Undefined
  /\ last.ret # last.value
  /\ MapGet(_map, last.key) = last.value

\* C4: every set(k, v) emits exactly one event, with key k, oldValue the
\* prior cached value and newValue v, of type 'add' when k was not in the
\* cache before the call and 'change' when it was, whatever value it held.
C4_SetEventClassified ==
  [][(last'.op = "set" /\ ~last'.threw)
       => emitted' = <<Event(IF MapHas(_map, last'.key) THEN "change" ELSE "add",
                             last'.key, MapGet(_map, last'.key), last'.value)>>]_vars

\* C5: for a key k present in the cache, after delete(k) returns has(k) is
\* false, k is absent from the remote map, delete returned the prior value,
\* and exactly one event was emitted: a 'remove' with the prior value as
\* oldValue and an absent newValue.
C5_DeleteRemoves ==
  [][(last'.op = "delete" /\ ~last'.threw /\ MapHas(_map, last'.key))
       => /\ ~MapHas(_map', last'.key)
          /\ ~MapHas(remote', last'.key)
          /\ last'.ret = MapGet(_map, last'.key)
          /\ emitted' = <<Event("remove", last'.key, MapGet(_map, last'.key),
                                Undefined)>>]_vars

\* a delete that returned the value of a key that was cached and remote
C5_Witness ==
  /\ Returned("delete")
  /\ last.ret # Undefined
  /\ Len(emitted) = 1
  /\ ~MapHas(_map, last.key)
  /\ ~MapHas(remote, last.key)

\* C6: after clear() returns, keys() is empty and the remote map holds none
\* of the keys that were in the cache; exactly one 'remove' event was
\* emitted for each key that was in the cache, carrying its prior value,
\* and no event for any other key.
C6_ClearRemovesAll ==
  [][(last'.op = "clear" /\ ~last'.threw)
       => /\ MapKeyList(_map') = <<>>
          /\ \A k \in MapKeys(_map) : ~MapHas(remote', k)
          /\ \A k \in Keys :
               EventsFor(emitted', k) = IF MapHas(_map, k) THEN 1 ELSE 0
          /\ \A i \in 1..Len(emitted') :
               emitted'[i] = Event("remove", emitted'[i].key,
                                   MapGet(_map, emitted'[i].key), Undefined)]_vars

\* a clear that removed two keys
C6_Witness ==
  /\ Returned("clear")
  /\ Len(emitted) = 2
  /\ emitted[1].key # emitted[2].key
  /\ _map = <<>>

\* C7: when the listener handles a non-local event for key k with a present
\* newValue, afterwards has(k) is true and get(k) is the event's new value,
\* wrapped when it is a composite type.
C7_RemoteSetCached ==
  [][(last'.op = "remoteSet" /\ listeners > 0)
       => /\ MapHas(_map', last'.key)
          /\ MapGet(_map', last'.key) = WrappedForm(last'.key, last'.value)]_vars

\* the listener has cached the wrapper of a collaborative list
C7_Witness ==
  /\ last.op = "remoteSet"
  /\ listeners > 0
  /\ last.value = "gList"
  /\ MapGet(_map, last.key) = "Vec"

\* C8: each non-local remote event produces (per registered listener, here
\* the one of a single assignment of googleObject) exactly one local event with
\* the remote event's key, oldValue and newValue, of type 'change' when
\* both values are present, 'remove' when only the old value is present,
\* 'add' when the old value is absent and the new value is present.
C8_RemoteEventClassified ==
  [][(last'.op \in {"remoteSet", "remoteDelete"} /\ listeners = 1)
       => LET old == MapGet(remote, last'.key)
              new == last'.value
              type == IF Present(old) /\ Present(new) THEN "change"
                      ELSE IF Present(old) THEN "remove" ELSE "add"
          IN emitted' = <<Event(type, last'.key, old, new)>>]_vars

\* C9: the first dispose() on an attached adapter leaves it disposed with
\* an empty cache and no remote listener; a dispose() on a disposed adapter
\* raises no error and changes nothing; isDisposed never goes back to false.
C9_DisposeIdempotent ==
  [][/\ (last'.op = "dispose" /\ ~_isDisposed /\ _gmap # Null)
          => (_isDisposed' /\ _map' = <<>> /\ listeners' = 0 /\ ~last'.threw)
     /\ (last'.op = "dispose" /\ _isDisposed)
          => /\ ~last'.threw
             /\ emitted' = <<>>
             /\ atEmit' = <<>>
             /\ UNCHANGED <<_map, remote, _gmap, listeners, _isDisposed,
                            _converters, connected>>
     /\ _isDisposed => _isDisposed']_vars

\* a dispose() on an adapter that was already disposed
C9_Witness ==
  /\ last.op = "dispose"
  /\ last.value = "again"
  /\ ~last.threw
  /\ _isDisposed

\* C10: when the remote map is attached to an adapter with an empty cache
\* and no listener (newly constructed, or emptied by dispose), the
\* cache's key set becomes the remote map's key set, no change event is
\* emitted, and exactly one remote listener is registered.
C10_AttachPopulates ==
  [][(last'.op = "attach" /\ _map = <<>> /\ listeners = 0)
       => /\ MapKeys(_map') = MapKeys(remote)
          /\ emitted' = <<>>
          /\ atEmit' = <<>>
          /\ listeners' = 1]_vars

\* an attach that populated the cache with two keys, one with a falsy value
C10_Witness ==
  /\ last.op = "attach"
  /\ Len(remote) = 2
  /\ MapKeys(_map) = MapKeys(remote)
  /\ \E k \in Keys : MapGet(remote, k) = "0" /\ MapHas(_map, k)

\* C11: get, has, keys and values leave the cache, the remote map and the
\* disposed flag unchanged, emit no event, and return what the cache holds.
C11_ReadsArePure ==
  [][(last'.op \in {"get", "has", "keys", "values"})
       => /\ UNCHANGED <<_map, remote, _isDisposed>>
          /\ emitted' = <<>>
          /\ last'.op = "get" => last'.ret = MapGet(_map, last'.key)
          /\ last'.op = "has" => last'.ret = BoolStr(MapHas(_map, last'.key))
          /\ last'.op = "keys" => listed' = MapKeyList(_map)
          /\ last'.op = "values" =>
               listed' = [i \in 1..Len(_map) |-> _map[i].value]]_vars

\* a get that returned the cached wrapper of a key whose remote value is
\* the collaborative list itself
C11_Witness ==
  /\ last.op = "get"
  /\ last.ret = "Vec"
  /\ MapGet(remote, last.key) = "gList"

\* C12: a key that was not in the remote map at attach, was never passed to
\* set or linkSet and was never the subject of a delivered remote event is
\* not in the cache: has(k) is false and get(k) is absent.
C12_UntouchedKeyAbsent ==
  \A k \in Keys \ touched : ~MapHas(_map, k) /\ MapGet(_map, k) = Undefined

\* a delete of a key that was never set, next to a key that is cached
C12_Witness ==
  /\ Returned("delete")
  /\ last.key \notin touched
  /\ _map # <<>>

\* C13: for set, delete (also from clear) and the listener, when the event
\* is emitted the cache and the remote map already hold the event's
\* newValue for its key (nothing for a remove): the cache as the value set
\* or the wrapped remote value, the remote map as the converted value set
\* or the remote value.
C13_EmitAfterWrite ==
  [][(last'.op \in {"set", "delete", "clear", "remoteSet", "remoteDelete"})
       => /\ Len(atEmit') = Len(emitted')
          /\ \A i \in 1..Len(emitted') :
               LET e == emitted'[i]
                   at == atEmit'[i]
               IN IF last'.op = "set"
                  THEN /\ at.cache = e.newValue
                       /\ at.remote = ConvertedForm(e.key, e.newValue)
                  ELSE IF last'.op \in {"delete", "clear"}
                  THEN /\ e.newValue = Undefined
                       /\ at.cache = Undefined
                       /\ at.remote = Undefined
                  ELSE /\ at.cache = WrappedForm(e.key, e.newValue)
                       /\ at.remote = e.newValue]_vars

\* a set that replaced a different value: at the emission the cache held
\* the new one
C13_Witness ==
  /\ Returned("set")
  /\ last.ret \notin {Undefined, last.value}
  /\ Len(atEmit) = 1
  /\ atEmit[1].cache = last.value

\* C14: the echo of a local write (isLocal true) changes nothing in the
\* cache and emits nothing: a set or delete on an adapter whose listener is
\* registered emits exactly one event and leaves the cache as its own write
\* made it.
C14_LocalEchoIgnored ==
  [][((last'.op \in {"set", "delete"}) /\ ~last'.threw /\ listeners > 0)
       => /\ Len(emitted') = 1
          /\ last'.op = "set" => _map' = MapSet(_map, last'.key, last'.value)
          /\ last'.op = "delete" => _map' = MapDelete(_map, last'.key)]_vars

\* a set, echoed to the registered listener, that emitted one event
C14_Witness ==
  /\ Returned("set")
  /\ listeners > 0
  /\ MapHas(remote, last.key)
  /\ Len(emitted) = 1

\* C15: after dispose() has returned no change event is emitted again and
\* the cache stays empty.
C15_NothingAfterDispose ==
  [][_isDisposed => (emitted' = <<>> /\ _map' = <<>>)]_vars

\* C16: dispose() leaves the remote map's entries unchanged and emits no
\* event.
C16_DisposeKeepsRemote ==
  [][(last'.op = "dispose") => (remote' = remote /\ emitted' = <<>>)]_vars

\* a first dispose of an adapter that had written keys, the remote map
\* still holding two entries
C16_Witness ==
  /\ Returned("dispose")
  /\ last.value = "first"
  /\ written # {}
  /\ Len(remote) = 2
  /\ _map = <<>>

\* C17: dispose() raises no error in any state before disposal, attached
\* or not, and leaves isDisposed true.
C17_DisposeNeverThrows ==
  [][(last'.op = "dispose") => (~last'.threw /\ _isDisposed')]_vars

\* C18: on an attached, undisposed adapter size = keys().length: attaching
\* a new adapter establishes it, and every set, delete, clear, linkSet that
\* returns and every delivered remote event keeps it.
C18_SizeIsKeyCount ==
  [][/\ (last'.op = "attach" /\ _map = <<>>)
          => MapSize(remote') = Len(MapKeyList(_map'))
     /\ (/\ _gmap # Null
         /\ ~_isDisposed
         /\ size = Len(keys)
         /\ last'.op \in {"set", "delete", "clear", "linkSet", "remoteSet",
                          "remoteDelete"}
         /\ ~last'.threw)
          => MapSize(remote') = Len(MapKeyList(_map'))]_vars

\* C19: when set(k, v) or delete(k) raises an error the cache is left as
\* it was before the call and no event is emitted.
C19_FailedWriteLeavesCache ==
  [][((last'.op \in {"set", "delete"}) /\ last'.threw)
       => (_map' = _map /\ emitted' = <<>>)]_vars

\* C20: delete(k) for a key that is not in the cache emits no event and
\* leaves the cache and the remote map unchanged.
C20_DeleteAbsentIsSilent ==
  [][(last'.op = "delete" /\ ~MapHas(_map, last'.key))
       => (emitted' = <<>> /\ _map' = _map /\ remote' = remote)]_vars

====
